---------------------------- MODULE Spec2Model ----------------------------
(***************************************************************************)
(* A model of the annotation analyzer of scripts/analyzer/analyzer.py.     *)
(*                                                                         *)
(* Python strings are sequences of one-character strings, so that          *)
(* str.split and ast.unparse are computed character by character.          *)
(* A node of the abstract syntax tree is a record [kind, id, kids]:        *)
(*   kind  the ast class name ("Absent" stands for Python's None),         *)
(*   id    the text the node carries (Name.id, the source text of a        *)
(*         Constant, Attribute.attr, the operator of a BinOp / UnaryOp),   *)
(*   kids  the child expressions in field order.                           *)
(***************************************************************************)
EXTENDS Integers, Sequences, FiniteSets, TLC

\* ------------------------------------------------------------------ bounds
\* Nesting depth of the generated annotation trees.
MaxDepth == 2
\* Length of the generated get_base_type inputs.
MaxLen == 3
\* Number of positional arguments of the generated function definitions.
MaxArgs == 2
\* Number of top-level statements of the module being traversed.
MaxStmts == 1
\* Number of concurrent workers.
NumWorkers == 2
\* Number of iterations of the merge loop that are followed.
MaxMerged == 12
\* Number of files in the repository folder.
MaxFiles == 2

\* ----------------------------------------------------------------- strings
S_int == <<"i", "n", "t">>
S_str == <<"s", "t", "r">>
S_None == <<"N", "o", "n", "e">>
S_Optional == <<"O", "p", "t", "i", "o", "n", "a", "l">>
S_Union == <<"U", "n", "i", "o", "n">>
S_List == <<"L", "i", "s", "t">>
S_dots == <<".", ".", ".">>
S_ellipsis == <<"e", "l", "l", "i", "p", "s", "i", "s">>
S_user_defined == <<"u", "s", "e", "r", "_", "d", "e", "f", "i", "n", "e", "d">>
S_if_ == <<" ", "i", "f", " ">>
S_else_ == <<" ", "e", "l", "s", "e", " ">>
S_lambda_ == <<"l", "a", "m", "b", "d", "a", ":", " ">>
S_le_ == <<" ", "<", "=", " ">>
S_f == <<"f">>
S_g == <<"g">>
S_x == <<"x">>
S_y == <<"y">>
S_self == <<"s", "e", "l", "f">>
S_a == <<"a">>
S_b == <<"b">>
S_c == <<"c">>
S_d == <<"d">>
S_0 == <<"0">>
S_or == <<"o", "r">>
S_bar == <<"|">>
S_minus == <<"-">>
S_Callable_ == <<"C", "a", "l", "l", "a", "b", "l", "e", "[", "]">>
S_MyCustomClass == <<"M", "y", "C", "u", "s", "t", "o", "m", "C", "l", "a", "s", "s">>
S_OptUnion ==
    <<"O", "p", "t", "i", "o", "n", "a", "l", "[", "U", "n", "i", "o", "n", "[",
      "s", "t", "r", ",", " ", "i", "n", "t", "]", "]">>

\* --------------------------------------------------------------- ast nodes
Node(kind, id, kids) == [kind |-> kind, id |-> id, kids |-> kids]
Absent == Node("Absent", <<>>, <<>>)
Name(id) == Node("Name", id, <<>>)
Constant(text) == Node("Constant", text, <<>>)
Subscript(value, slice) == Node("Subscript", <<>>, <<value, slice>>)
Attribute(value, attr) == Node("Attribute", attr, <<value>>)
BinOp(left, right) == Node("BinOp", S_bar, <<left, right>>)
Call(func, args) == Node("Call", <<>>, <<func>> \o args)
Slice(lower, upper) == Node("Slice", <<>>, <<lower, upper>>)
Tuple(elts) == Node("Tuple", <<>>, elts)
List(elts) == Node("List", <<>>, elts)
UnaryOp(operand) == Node("UnaryOp", S_minus, <<operand>>)
BoolOp(values) == Node("BoolOp", S_or, values)
Dict(key, value) == Node("Dict", <<>>, <<key, value>>)
Set(elts) == Node("Set", <<>>, elts)
IfExp(test, body, orelse) == Node("IfExp", <<>>, <<test, body, orelse>>)
Lambda(body) == Node("Lambda", <<>>, <<body>>)
Compare(left, right) == Node("Compare", <<>>, <<left, right>>)
JoinedStr(values) == Node("JoinedStr", <<>>, values)
Starred(value) == Node("Starred", <<>>, <<value>>)

\* Optional[Union[str, int]]
OptionalUnionStrInt ==
    Subscript(Name(S_Optional),
              Subscript(Name(S_Union), Tuple(<<Name(S_str), Name(S_int)>>)))

\* ------------------------------------------------ handle_annotation_basic
\* The first branch of handle_annotation_basic: the node is "a type".
FoundType(annotation) == annotation.kind \in {"Name", "Constant"}

\* The bounds of a Slice that are not None.
PresentOnly(nodes) == SelectSeq(nodes, LAMBDA n : n.kind # "Absent")

\* Faulty variants of Recurse: a Subscript followed into its value only, into
\* its slice only, and a BoolOp followed like a BinOp.
RecurseValueOnly(annotation) ==
    CASE annotation.kind = "Subscript" -> <<annotation.kids[1]>>
      [] annotation.kind = "Attribute" -> <<annotation.kids[1]>>
      [] annotation.kind = "BinOp" -> annotation.kids
      [] annotation.kind = "Call" -> <<annotation.kids[1]>>
      [] annotation.kind = "Slice" -> PresentOnly(annotation.kids)
      [] annotation.kind \in {"Tuple", "List"} -> annotation.kids
      [] annotation.kind = "UnaryOp" -> <<annotation.kids[1]>>
      [] OTHER -> <<>>

RecurseSliceOnly(annotation) ==
    CASE annotation.kind = "Subscript" -> <<annotation.kids[2]>>
      [] annotation.kind = "Attribute" -> <<annotation.kids[1]>>
      [] annotation.kind = "BinOp" -> annotation.kids
      [] annotation.kind = "Call" -> <<annotation.kids[1]>>
      [] annotation.kind = "Slice" -> PresentOnly(annotation.kids)
      [] annotation.kind \in {"Tuple", "List"} -> annotation.kids
      [] annotation.kind = "UnaryOp" -> <<annotation.kids[1]>>
      [] OTHER -> <<>>

RecurseBoolOp(annotation) ==
    CASE annotation.kind = "Subscript" -> annotation.kids
      [] annotation.kind = "Attribute" -> <<annotation.kids[1]>>
      [] annotation.kind \in {"BinOp", "BoolOp"} -> annotation.kids
      [] annotation.kind = "Call" -> <<annotation.kids[1]>>
      [] annotation.kind = "Slice" -> PresentOnly(annotation.kids)
      [] annotation.kind \in {"Tuple", "List"} -> annotation.kids
      [] annotation.kind = "UnaryOp" -> <<annotation.kids[1]>>
      [] OTHER -> <<>>

\* The sub-annotations handle_annotation_basic calls itself on, in order.
Recurse(annotation) ==
    CASE annotation.kind = "Subscript" -> annotation.kids
      [] annotation.kind = "Attribute" -> <<annotation.kids[1]>>
      [] annotation.kind = "BinOp" -> annotation.kids
      [] annotation.kind = "Call" -> <<annotation.kids[1]>>
      [] annotation.kind = "Slice" -> PresentOnly(annotation.kids)
      [] annotation.kind \in {"Tuple", "List"} -> annotation.kids
      [] annotation.kind = "UnaryOp" -> <<annotation.kids[1]>>
      [] OTHER -> <<>>

\* One call of handle_annotation_basic on the node on top of the call stack:
\* the new call stack and the new self.last_count.
BasicStep(calls, count) ==
    LET annotation == Head(calls) IN
    [calls |-> (IF FoundType(annotation) THEN <<>> ELSE Recurse(annotation))
                   \o Tail(calls),
     count |-> IF FoundType(annotation) THEN count + 1 ELSE count]

\* handle_annotation_basic run to completion: the value of self.last_count
\* when the outermost call returns.
RECURSIVE RunBasic(_, _)
RunBasic(calls, count) ==
    IF calls = <<>> THEN count
    ELSE LET s == BasicStep(calls, count) IN RunBasic(s.calls, s.count)

handle_annotation_basic(annotation, count) == RunBasic(<<annotation>>, count)

\* ----------------------------------------------------------------- inputs
WellFormedKinds ==
    {"Name", "Constant", "Subscript", "Attribute", "BinOp", "Call", "Slice",
     "Tuple", "List", "UnaryOp"}
\* Starred stands for any node kind handle_annotation_basic has no branch for.
AnomalousKinds ==
    {"BoolOp", "Dict", "Set", "IfExp", "Lambda", "Compare", "JoinedStr",
     "Starred"}

Leaves == {Name(S_int), Constant(S_None)}

\* The composite nodes over a subtree t: every node kind, with t in each
\* child position and leaves in the others.  A Slice occurs only where the
\* parser puts one, as the slice of a Subscript.
Over(t) ==
    {Subscript(Name(S_List), t), Subscript(t, Name(S_int)),
     Subscript(Name(S_List), Slice(Absent, Absent)),
     Subscript(Name(S_List), Slice(t, Absent)),
     Subscript(Name(S_List), Slice(Absent, t)),
     Subscript(Name(S_List), Slice(t, Constant(S_None))),
     Attribute(t, S_str),
     BinOp(t, Constant(S_None)), BinOp(Name(S_int), t),
     Call(t, <<>>), Call(Name(S_List), <<t>>),
     Tuple(<<>>), Tuple(<<t>>), Tuple(<<t, Name(S_int)>>),
     List(<<>>), List(<<t>>), List(<<Name(S_int), t>>),
     UnaryOp(t),
     BoolOp(<<t, Name(S_int)>>), Dict(Name(S_str), t), Set(<<t>>),
     IfExp(Name(S_int), t, Constant(S_None)), Lambda(t),
     Compare(t, Name(S_int)), JoinedStr(<<t>>), Starred(t)}

RECURSIVE Trees(_)
Trees(d) ==
    IF d = 0 THEN Leaves
    ELSE LET T == Trees(d - 1) IN T \cup UNION {Over(t) : t \in T}

AnnotationTrees == Trees(MaxDepth) \cup {OptionalUnionStrInt}


\* ------------------------------------------------------------ get_base_type
\* str.split(sep)[0]: the text before the first sep, all of it if there is none.
RECURSIVE SplitFirst(_, _)
SplitFirst(s, sep) ==
    IF s = <<>> \/ Head(s) = sep THEN <<>>
    ELSE <<Head(s)>> \o SplitFirst(Tail(s), sep)

\* The list of python types of get_base_type.
PythonTypes ==
    { <<"N", "o", "n", "e">>,
      <<"b", "o", "o", "l">>,
      <<"i", "n", "t">>,
      <<"f", "l", "o", "a", "t">>,
      <<"c", "o", "m", "p", "l", "e", "x">>,
      <<"s", "t", "r">>,
      <<"b", "y", "t", "e", "s">>,
      <<"b", "y", "t", "e", "a", "r", "r", "a", "y">>,
      <<"m", "e", "m", "o", "r", "y", "v", "i", "e", "w">>,
      <<"r", "a", "n", "g", "e">>,
      <<"t", "u", "p", "l", "e">>,
      <<"l", "i", "s", "t">>,
      <<"s", "e", "t">>,
      <<"f", "r", "o", "z", "e", "n", "s", "e", "t">>,
      <<"d", "i", "c", "t">>,
      <<"e", "l", "l", "i", "p", "s", "i", "s">>,
      <<".", ".", ".">>,
      <<"t", "y", "p", "e">>,
      <<"o", "b", "j", "e", "c", "t">>,
      <<"N", "o", "n", "e", "T", "y", "p", "e">>,
      <<"A", "n", "y">>,
      <<"U", "n", "i", "o", "n">>,
      <<"O", "p", "t", "i", "o", "n", "a", "l">>,
      <<"C", "a", "l", "l", "a", "b", "l", "e">>,
      <<"T", "y", "p", "e", "V", "a", "r">>,
      <<"G", "e", "n", "e", "r", "i", "c">>,
      <<"C", "l", "a", "s", "s", "V", "a", "r">>,
      <<"F", "i", "n", "a", "l">>,
      <<"L", "i", "t", "e", "r", "a", "l">>,
      <<"A", "n", "n", "o", "t", "a", "t", "e", "d">>,
      <<"T", "y", "p", "e", "d", "D", "i", "c", "t">>,
      <<"P", "r", "o", "t", "o", "c", "o", "l">>,
      <<"r", "u", "n", "t", "i", "m", "e", "_", "c", "h", "e", "c", "k", "a", "b", "l", "e">>,
      <<"A", "b", "s", "t", "r", "a", "c", "t", "S", "e", "t">> }

\* An Optional[str] argument: Python's None, or a string.
PyNone == [is_none |-> TRUE, text |-> <<>>]
PyStr(s) == [is_none |-> FALSE, text |-> s]

\* unparsed_annotation.split('[')[0].split(',')[0].split(' ')[0]
BaseToken(text) == SplitFirst(SplitFirst(SplitFirst(text, "["), ","), " ")

\* A faulty variant of get_base_type: "..." is not renamed.
get_base_type_keep_dots(unparsed_annotation) ==
    IF unparsed_annotation.is_none \/ unparsed_annotation.text = <<>>
    THEN <<>>
    ELSE LET base_type == BaseToken(unparsed_annotation.text) IN
         IF base_type \in PythonTypes THEN base_type ELSE S_user_defined

\* A faulty variant of get_base_type: a token that is no python type is
\* returned as it is.
get_base_type_echo(unparsed_annotation) ==
    IF unparsed_annotation.is_none \/ unparsed_annotation.text = <<>>
    THEN <<>>
    ELSE LET base_type == BaseToken(unparsed_annotation.text) IN
         IF base_type = S_dots THEN S_ellipsis ELSE base_type

get_base_type(unparsed_annotation) ==
    IF unparsed_annotation.is_none \/ unparsed_annotation.text = <<>>
    THEN <<>>
    ELSE LET base_type == BaseToken(unparsed_annotation.text) IN
         IF base_type \in PythonTypes
         THEN (IF base_type = S_dots THEN S_ellipsis ELSE base_type)
         ELSE S_user_defined

\* The characters the generated get_base_type inputs are written in.
Alphabet == {"[", ",", " ", ".", "i", "n", "t"}

RECURSIVE Strings(_)
Strings(n) ==
    IF n = 0 THEN {<<>>}
    ELSE LET S == Strings(n - 1) IN
         S \cup {<<c>> \o s : c \in Alphabet, s \in {x \in S : Len(x) = n - 1}}

BaseTypeInputs ==
    {PyNone} \cup
    {PyStr(s) : s \in Strings(MaxLen) \cup
                      {S_int, S_OptUnion, S_Callable_, S_MyCustomClass, S_dots,
                       S_ellipsis, S_user_defined}}


\* -------------------------------------------------------------- ast.unparse
RECURSIVE Join(_, _)
Join(texts, sep) ==
    IF texts = <<>> THEN <<>>
    ELSE IF Len(texts) = 1 THEN texts[1]
    ELSE texts[1] \o sep \o Join(Tail(texts), sep)

\* The node kinds ast.unparse parenthesises where an atom is required, and
\* those it parenthesises as an operand of a binary or unary operator.
NonAtomKinds ==
    {"BinOp", "UnaryOp", "BoolOp", "IfExp", "Lambda", "Compare", "Starred"}
LowKinds == {"BoolOp", "IfExp", "Lambda", "Compare"}

RECURSIVE Unparse(_)
Delimit(open, text, close) == <<open>> \o text \o <<close>>
AsAtom(n) ==
    IF n.kind \in NonAtomKinds THEN Delimit("(", Unparse(n), ")") ELSE Unparse(n)
AsOperand(n, kinds) ==
    IF n.kind \in kinds THEN Delimit("(", Unparse(n), ")") ELSE Unparse(n)
ItemsView(elts) ==
    IF Len(elts) = 1 THEN Unparse(elts[1]) \o <<",">>
    ELSE Join([i \in 1..Len(elts) |-> Unparse(elts[i])], <<",", " ">>)
Unparse(n) ==
    CASE n.kind \in {"Name", "Constant"} -> n.id
      [] n.kind = "Subscript" ->
            AsAtom(n.kids[1]) \o
            Delimit("[",
                    IF n.kids[2].kind = "Tuple" /\ n.kids[2].kids # <<>>
                    THEN ItemsView(n.kids[2].kids) ELSE Unparse(n.kids[2]),
                    "]")
      [] n.kind = "Attribute" -> AsAtom(n.kids[1]) \o <<".">> \o n.id
      [] n.kind = "BinOp" ->
            AsOperand(n.kids[1], LowKinds) \o <<" ">> \o n.id \o <<" ">> \o
            AsOperand(n.kids[2], LowKinds \cup {"BinOp"})
      [] n.kind = "UnaryOp" ->
            n.id \o AsOperand(n.kids[1], LowKinds \cup {"BinOp"})
      [] n.kind = "Call" ->
            AsAtom(n.kids[1]) \o
            Delimit("(",
                    Join([i \in 1..(Len(n.kids) - 1) |-> Unparse(n.kids[i + 1])],
                         <<",", " ">>),
                    ")")
      [] n.kind = "Slice" -> Unparse(n.kids[1]) \o <<":">> \o Unparse(n.kids[2])
      [] n.kind = "Tuple" -> Delimit("(", ItemsView(n.kids), ")")
      [] n.kind = "List" ->
            Delimit("[", Join([i \in 1..Len(n.kids) |-> Unparse(n.kids[i])],
                              <<",", " ">>), "]")
      [] n.kind = "BoolOp" ->
            Join([i \in 1..Len(n.kids) |->
                     AsOperand(n.kids[i], {"BoolOp", "IfExp", "Lambda"})],
                 <<" ">> \o n.id \o <<" ">>)
      [] n.kind = "Dict" ->
            Delimit("{", Unparse(n.kids[1]) \o <<":", " ">> \o Unparse(n.kids[2]),
                    "}")
      [] n.kind = "Set" ->
            Delimit("{", Join([i \in 1..Len(n.kids) |-> Unparse(n.kids[i])],
                              <<",", " ">>), "}")
      [] n.kind = "IfExp" ->
            AsOperand(n.kids[2], {"IfExp", "Lambda"}) \o S_if_ \o
            AsOperand(n.kids[1], {"IfExp", "Lambda"}) \o S_else_ \o
            Unparse(n.kids[3])
      [] n.kind = "Lambda" -> S_lambda_ \o Unparse(n.kids[1])
      [] n.kind = "Compare" ->
            AsOperand(n.kids[1], LowKinds) \o S_le_ \o
            AsOperand(n.kids[2], LowKinds)
      [] n.kind = "JoinedStr" ->
            <<"f", "'">> \o
            Join([i \in 1..Len(n.kids) |-> Delimit("{", Unparse(n.kids[i]), "}")],
                 <<>>) \o <<"'">>
      [] n.kind = "Starred" -> <<"*">> \o Unparse(n.kids[1])
      [] OTHER -> <<>>

\* --------------------------------------------------- FuncVar and Annotation
\* The defaults of AnnotationAnalyzer.__init__.
DefaultRepoId == -1
DefaultRelPath == <<>>

FuncVar(repo_id, rel_path, name, lineno) ==
    [repo_id |-> repo_id, relative_path |-> rel_path, name |-> name,
     lineno |-> lineno, num_var |-> 0, num_var_annotated |-> 0]

\* Faulty variants of the two counters: the increment is lost.
increase_num_var_skip(fv) == fv
increase_num_var(fv) == [fv EXCEPT !.num_var = @ + 1]

increase_num_var_annotated_skip(fv) == fv
increase_num_var_annotated(fv) == [fv EXCEPT !.num_var_annotated = @ + 1]

Annotation(repo_id, relative_path, func_var_name, lineno, annot_name, fvt, base, entire_annotation, count) ==
    [repo_id |-> repo_id, relative_path |-> relative_path,
     func_var_name |-> func_var_name, lineno |-> lineno,
     annot_name |-> annot_name, func_var_type |-> fvt,
     base_type |-> base, entire_annotation |-> entire_annotation,
     count |-> count]

\* ---------------------------------------------------------------- statements
arg(name, annotation) == [arg |-> name, annotation |-> annotation]
arguments(args) ==
    [posonlyargs |-> <<>>, args |-> args, vararg |-> <<>>, kwonlyargs |-> <<>>,
     kwarg |-> <<>>]
Stmt(kind, name, lineno, args, returns, body, targets, annotation, value) ==
    [kind |-> kind, name |-> name, lineno |-> lineno, args |-> arguments(args),
     returns |-> returns, body |-> body, targets |-> targets,
     annotation |-> annotation, value |-> value]
FunctionDef(name, lineno, args, returns, body) ==
    Stmt("FunctionDef", name, lineno, args, returns, body, <<>>, Absent, Absent)
AnnAssign(lineno, target, annotation) ==
    Stmt("AnnAssign", <<>>, lineno, <<>>, Absent, <<>>, <<target>>, annotation,
         Absent)
Assign(lineno, targets) ==
    Stmt("Assign", <<>>, lineno, <<>>, Absent, <<>>, targets, Absent, Absent)
Return(lineno, value) ==
    Stmt("Return", <<>>, lineno, <<>>, Absent, <<>>, <<>>, Absent, value)
If(lineno, body) ==
    Stmt("If", <<>>, lineno, <<>>, Absent, body, <<>>, Absent, Absent)
Pass(lineno) ==
    Stmt("Pass", <<>>, lineno, <<>>, Absent, <<>>, <<>>, Absent, Absent)

\* A return statement that returns something other than None.
ReturnsSomething(statement) ==
    /\ statement.kind = "Return"
    /\ statement.value # Absent
    /\ ~(statement.value.kind = "Constant" /\ statement.value.id = S_None)

contains_return(body) == \E i \in 1..Len(body) : ReturnsSomething(body[i])

RECURSIVE get_var_name(_)
get_var_name(element) ==
    CASE element.kind = "Name" -> element.id
      [] element.kind = "Attribute" -> element.id
      [] element.kind = "Subscript" -> get_var_name(element.kids[1])
      [] OTHER -> <<>>


\* ------------------------------------------------------- generated modules
ArgNames == <<S_a, S_b, S_c, S_d>>
ArgAnnotations ==
    <<Name(S_int), OptionalUnionStrInt, Name(S_str), Dict(Name(S_str), Name(S_int))>>

\* The argument lists of at most n arguments: the i-th argument is named
\* ArgNames[i] and is either bare or annotated with ArgAnnotations[i].
RECURSIVE ArgLists(_)
ArgLists(n) ==
    IF n = 0 THEN {<<>>}
    ELSE LET A == ArgLists(n - 1) IN
         A \cup {Append(l, arg(ArgNames[n], t)) :
                    l \in {x \in A : Len(x) = n - 1},
                    t \in {Absent, ArgAnnotations[n]}}

\* def f(a: int, b, c: str) -> None: pass
ArgsABC == <<arg(S_a, Name(S_int)), arg(S_b, Absent), arg(S_c, Name(S_str))>>
FunctionABC(line) ==
    FunctionDef(S_f, line, ArgsABC, Constant(S_None), <<Pass(line + 1)>>)

\* def f(c: int, /, <args>, *d: str, x: int, **y: str): pass
\* and the same without the annotations of c, d, x and y.
WithOtherArguments(line, args, annotated) ==
    LET t(annotation) == IF annotated THEN annotation ELSE Absent IN
    [FunctionDef(S_f, line, args, Absent, <<Pass(line + 1)>>)
        EXCEPT !.args.posonlyargs = <<arg(S_c, t(Name(S_int)))>>,
               !.args.vararg = <<arg(S_d, t(Name(S_str)))>>,
               !.args.kwonlyargs = <<arg(S_x, t(Name(S_int)))>>,
               !.args.kwarg = <<arg(S_y, t(Name(S_str)))>>]

ReturnAnnotations == {Absent, Constant(S_None)}

\* Function bodies, starting at the given line.
Bodies(line) ==
    { <<Pass(line)>>,
      <<Return(line, Absent)>>,
      <<Return(line, Constant(S_None))>>,
      <<Return(line, Name(S_x))>>,
      <<If(line, <<Return(line + 1, Name(S_x))>>)>>,
      <<AnnAssign(line, Name(S_x), Subscript(Name(S_List),
                                             BoolOp(<<Name(S_str), Name(S_int)>>))),
        FunctionDef(S_g, line + 1, <<arg(S_a, Name(S_int)), arg(S_b, Absent)>>,
                    Absent,
                    <<Return(line + 2, Name(S_x))>>)>>,
      <<Assign(line, <<Tuple(<<Name(S_a), Name(S_b)>>)>>),
        Return(line + 1, Constant(S_None))>>,
      \* x: int; y: Optional[Union[str, int]]; x: int
      <<AnnAssign(line, Name(S_x), Name(S_int)),
        AnnAssign(line, Name(S_y), OptionalUnionStrInt),
        AnnAssign(line, Name(S_x), Name(S_int))>> }

FunctionDefs(line) ==
    {FunctionDef(S_f, line, args, returns, body) :
        args \in ArgLists(MaxArgs), returns \in ReturnAnnotations,
        body \in Bodies(line + 1)}
    \cup {FunctionABC(line)}
    \cup {WithOtherArguments(line, args, annotated) :
              args \in {<<>>, <<arg(S_a, Name(S_int)), arg(S_b, Absent)>>},
              annotated \in BOOLEAN}

AnnAssigns(line) ==
    { AnnAssign(line, Name(S_x), Name(S_int)),
      AnnAssign(line, Attribute(Name(S_self), S_y), Constant(S_dots)),
      AnnAssign(line, Subscript(Name(S_x), Constant(S_0)), List(<<>>)),
      AnnAssign(line, Name(S_x), Dict(Name(S_str), Name(S_int))),
      AnnAssign(line, Name(S_y), Attribute(Name(S_x), S_y)) }

Assigns(line) ==
    { Assign(line, <<Name(S_x)>>),
      Assign(line, <<Name(S_a), Name(S_a)>>),
      Assign(line, <<Tuple(<<Name(S_a), Attribute(Name(S_self), S_b)>>),
                     Name(S_c)>>) }

\* The statements a module body is made of; the k-th one starts at line 10k+1.
Stmts(k) ==
    LET line == 10 * k + 1 IN
    FunctionDefs(line) \cup AnnAssigns(line) \cup Assigns(line)

\* --------------------------------------------------------------- the state
VARIABLES
    \* AnnotationAnalyzer
    total_annotations, last_count, funcs_and_vars, annotations,
    unannotated_names,
    \* NodeVisitor.visit: the module body visited so far, the statements still
    \* to visit (depth first), the position in visit_FunctionDef, the FuncVar
    \* it is building and the index of its next argument
    module, todo, pc, func, argi,
    \* per handled annotation: its node, and last_count when
    \* handle_annotation_basic was entered and when it returned
    passes,
    \* one handle_annotation_basic pass: its annotation, its pending calls
    tree, calls, cpc,
    \* one get_base_type call: its argument and its result
    unparsed_annotation, base_type, bpc,
    \* concurrent workers: whether they call one analyzer or one each, the
    \* analyzers (constructed or not, with their last_count), the handlers of
    \* logging.getLogger("my_logger"), and per worker the annotation of its
    \* handle_annotation_basic pass, the pending calls and what it read from
    \* last_count when the pass returned
    shared, analyzers, my_logger, worker_tree, worker_calls, worker_result,
    \* merge_results: the five lists d1..d5, the merged list, the loop index
    \* and the position in the function
    d, data, mi, mpc,
    \* traverse_database and analyze_repository: the identity given to the
    \* analyzer of the current file, whether a DBHelper is passed and whether
    \* its cursor attribute can be called, the files of the repository
    \* folder, the index of the current file, which of the two calls of
    \* analyze_repository is running, the position in the code, and the
    \* lists of the DBHelper
    repo_id, rel_path, db, cursor_callable, files, fi, run, rpc,
    module_commits, func_var_commits, annotation_commits

analyzer == <<total_annotations, last_count, funcs_and_vars, annotations,
              unannotated_names>>
walker == <<module, todo, pc, func, argi>>
classifier == <<tree, calls, cpc>>
resolver == <<unparsed_annotation, base_type, bpc>>
workers == <<shared, analyzers, my_logger, worker_tree, worker_calls,
             worker_result>>
merger == <<d, data, mi, mpc>>
corpus == <<repo_id, rel_path, db, cursor_callable, files, fi, run, rpc,
            module_commits, func_var_commits, annotation_commits>>
vars == <<analyzer, walker, passes, classifier, resolver, workers, merger,
          corpus>>

\* AnnotationAnalyzer.__init__
InitAnalyzer ==
    /\ total_annotations = 0
    /\ last_count = 0
    /\ funcs_and_vars = <<>>
    /\ annotations = <<>>
    /\ unannotated_names = <<>>
    /\ passes = <<>>

InitWalker ==
    /\ module = <<>>
    /\ todo = <<>>
    /\ pc = "visit"
    /\ func = <<>>
    /\ argi = 1

IdleClassifier ==
    /\ tree = Absent
    /\ calls = <<>>
    /\ cpc = "idle"

IdleResolver ==
    /\ unparsed_annotation = PyNone
    /\ base_type = <<>>
    /\ bpc = "idle"

\* An analyzer constructed with the default arguments, outside
\* traverse_database.
IdleCorpus ==
    /\ repo_id = DefaultRepoId
    /\ rel_path = DefaultRelPath
    /\ db = FALSE
    /\ cursor_callable = FALSE
    /\ files = <<>>
    /\ fi = 1
    /\ run = 1
    /\ rpc = "idle"
    /\ module_commits = <<>>
    /\ func_var_commits = <<>>
    /\ annotation_commits = <<>>

\* merge_results is not running.
IdleMerger ==
    /\ d = <<>>
    /\ data = <<>>
    /\ mi = 0
    /\ mpc = "idle"

\* No concurrent workers.
IdleWorkers ==
    /\ shared = FALSE
    /\ analyzers = <<>>
    /\ my_logger = <<>>
    /\ worker_tree = <<>>
    /\ worker_calls = <<>>
    /\ worker_result = <<>>

\* A faulty variant of HandleAnnotation: the accumulator is never reset, and
\* the record stores the value it has reached.
HandleAnnotationAccumulating(count, annot, func_var_name, lineno, fvt, annot_name) ==
    LET reached == handle_annotation_basic(annot, count)
    IN  [annot |-> annot, entry |-> count, reached |-> reached,
         last_count |-> reached,
         record |-> Annotation(repo_id, rel_path, func_var_name,
                               lineno, annot_name, fvt,
                               get_base_type(PyStr(Unparse(annot))),
                               Unparse(annot), reached)]

\* A faulty variant of HandleAnnotation: the accumulator keeps the value the
\* pass has reached.
HandleAnnotationNoReset(count, annot, func_var_name, lineno, fvt, annot_name) ==
    [annot |-> annot, entry |-> count,
     reached |-> handle_annotation_basic(annot, count),
     last_count |-> handle_annotation_basic(annot, count),
     record |-> Annotation(repo_id, rel_path, func_var_name,
                           lineno, annot_name, fvt,
                           get_base_type(PyStr(Unparse(annot))),
                           Unparse(annot), 0)]

\* --------------------------------------------- completely_handle_annotation
\* What completely_handle_annotation computes from self.last_count = count:
\* the value last_count reaches in handle_annotation_basic, the value it is
\* left with, and the Annotation record.
HandleAnnotation(count, annot, func_var_name, lineno, fvt, annot_name) ==
    LET reached == handle_annotation_basic(annot, count)
        reset == 0
    IN  [annot |-> annot, entry |-> count, reached |-> reached,
         last_count |-> reset,
         record |-> Annotation(repo_id, rel_path, func_var_name,
                               lineno, annot_name, fvt,
                               get_base_type(PyStr(Unparse(annot))),
                               Unparse(annot), reset)]

\* A faulty variant of completely_handle_annotation: the record is put at the
\* front of the list.
completely_handle_annotation_first(annot, func_var_name, lineno, fvt, annot_name) ==
    LET h == HandleAnnotation(last_count, annot, func_var_name, lineno, fvt,
                              annot_name)
    IN  /\ total_annotations' = total_annotations + 1
        /\ last_count' = h.last_count
        /\ annotations' = <<h.record>> \o annotations
        /\ passes' = <<[annot |-> h.annot, entry |-> h.entry,
                        reached |-> h.reached]>> \o passes

\* A faulty variant of completely_handle_annotation: total_annotations counts
\* the leaves of the annotation instead of the annotation.
completely_handle_annotation_leaves(annot, func_var_name, lineno, fvt, annot_name) ==
    LET h == HandleAnnotation(last_count, annot, func_var_name, lineno, fvt,
                              annot_name)
    IN  /\ total_annotations' = total_annotations + h.reached
        /\ last_count' = h.last_count
        /\ annotations' = Append(annotations, h.record)
        /\ passes' = Append(passes, [annot |-> h.annot, entry |-> h.entry,
                                     reached |-> h.reached])

completely_handle_annotation(annot, func_var_name, lineno, fvt, annot_name) ==
    LET h == HandleAnnotation(last_count, annot, func_var_name, lineno, fvt,
                              annot_name)
    IN  /\ total_annotations' = total_annotations + 1
        /\ last_count' = h.last_count
        /\ annotations' = Append(annotations, h.record)
        /\ passes' = Append(passes, [annot |-> h.annot, entry |-> h.entry,
                                     reached |-> h.reached])

\* ------------------------------------------------------------- the walker
\* NodeVisitor.visit(module): generic_visit reaches the next statement of the
\* module body.
visit_Module ==
    /\ pc = "visit" /\ todo = <<>> /\ Len(module) < MaxStmts
    /\ \E s \in Stmts(Len(module)) :
          /\ module' = Append(module, s)
          /\ todo' = <<s>>
    /\ UNCHANGED <<workers, merger, corpus>>
    /\ UNCHANGED <<pc, func, argi, analyzer, passes, classifier, resolver>>

\* A faulty variant of looped_args: every kind of argument is looped over.
looped_args_all_kinds(node) ==
    node.args.posonlyargs \o node.args.args \o node.args.vararg
    \o node.args.kwonlyargs \o node.args.kwarg

\* for arg in node.args.args
looped_args(node) == node.args.args

\* visit_FunctionDef, up to the loop over node.args.args.
visit_FunctionDef_enter ==
    /\ pc = "visit" /\ todo # <<>> /\ Head(todo).kind = "FunctionDef"
    /\ LET node == Head(todo) IN
       func' = <<FuncVar(repo_id, rel_path, node.name, node.lineno)>>
    /\ argi' = 1
    /\ pc' = "args"
    /\ UNCHANGED <<workers, merger, corpus>>
    /\ UNCHANGED <<module, todo, analyzer, passes, classifier, resolver>>

\* A faulty variant of arg_annot_name: the argument's name is dropped.
arg_annot_name_dropped(a) == <<>>

\* annot_name = arg.arg if arg.arg else ""
arg_annot_name(a) == IF a.arg # <<>> THEN a.arg ELSE <<>>

\* visit_FunctionDef, one iteration of the loop over node.args.args.
visit_FunctionDef_arg ==
    /\ pc = "args" /\ argi <= Len(looped_args(Head(todo)))
    /\ LET node == Head(todo)
           a == looped_args(node)[argi]
           counted == increase_num_var(func[1])
       IN  IF a.annotation # Absent
           THEN /\ func' = <<increase_num_var_annotated(counted)>>
                /\ completely_handle_annotation(a.annotation, node.name,
                                                node.lineno, "FUNCTION_ARG",
                                                arg_annot_name(a))
           ELSE /\ func' = <<counted>>
                /\ UNCHANGED <<total_annotations, last_count, annotations, passes>>
    /\ argi' = argi + 1
    /\ UNCHANGED <<workers, merger, corpus>>
    /\ UNCHANGED <<module, todo, pc, funcs_and_vars, unannotated_names,
                   classifier, resolver>>

\* A faulty variant of WithReturnSlot: an annotated return is not counted.
WithReturnSlotUnannotatedOnly(node, fv) ==
    IF node.returns = Absent /\ contains_return(node.body)
    THEN increase_num_var(fv) ELSE fv

\* A faulty variant of WithReturnSlot: the body is looked at first, so a
\* return statement hides the return annotation.
WithReturnSlotBodyFirst(node, fv) ==
    IF contains_return(node.body) THEN increase_num_var(fv)
    ELSE IF node.returns # Absent
         THEN increase_num_var_annotated(increase_num_var(fv))
         ELSE fv

\* The FuncVar of visit_FunctionDef after the return slot has been looked at.
WithReturnSlot(node, fv) ==
    IF node.returns # Absent
    THEN increase_num_var_annotated(increase_num_var(fv))
    ELSE IF contains_return(node.body) THEN increase_num_var(fv) ELSE fv

\* visit_FunctionDef, from the return annotation to generic_visit(node).
visit_FunctionDef_returns ==
    /\ pc = "args" /\ argi > Len(looped_args(Head(todo)))
    /\ LET node == Head(todo)
           fv == WithReturnSlot(node, func[1])
       IN  /\ IF node.returns # Absent
              THEN completely_handle_annotation(node.returns, node.name,
                                                node.lineno, "FUNCTION_RETURN", <<>>)
              ELSE UNCHANGED <<total_annotations, last_count, annotations, passes>>
           /\ unannotated_names' =
                 IF 0 < fv.num_var_annotated /\ fv.num_var_annotated < fv.num_var
                 THEN unannotated_names \o
                      [i \in 1..Len(node.args.args) |-> node.args.args[i].arg]
                 ELSE unannotated_names
           /\ funcs_and_vars' = Append(funcs_and_vars, fv)
           /\ todo' = node.body \o Tail(todo)
    /\ func' = <<>>
    /\ argi' = 1
    /\ pc' = "visit"
    /\ UNCHANGED <<workers, merger, corpus>>
    /\ UNCHANGED <<module, classifier, resolver>>

\* A faulty variant of AnnotatedVar: the annotation is not counted.
AnnotatedVarUncounted(name, lineno) ==
    increase_num_var(FuncVar(repo_id, rel_path, name, lineno))

AnnotatedVar(name, lineno) ==
    increase_num_var_annotated(
        increase_num_var(FuncVar(repo_id, rel_path, name, lineno)))

visit_AnnAssign ==
    /\ pc = "visit" /\ todo # <<>> /\ Head(todo).kind = "AnnAssign"
    /\ LET node == Head(todo)
           var_name == get_var_name(node.targets[1])
       IN  /\ funcs_and_vars' =
                 Append(funcs_and_vars, AnnotatedVar(var_name, node.lineno))
           /\ completely_handle_annotation(node.annotation, var_name,
                                           node.lineno, "VARIABLE", var_name)
    /\ todo' = Tail(todo)
    /\ UNCHANGED <<workers, merger, corpus>>
    /\ UNCHANGED <<module, pc, func, argi, unannotated_names, classifier,
                   resolver>>

PlainVar(element, lineno) ==
    increase_num_var(
        FuncVar(repo_id, rel_path, get_var_name(element), lineno))

\* A faulty variant of AssignedVars: a tuple target is one site.
AssignedVarsPerTarget(targets, lineno) ==
    [i \in 1..Len(targets) |-> PlainVar(targets[i], lineno)]

\* The FuncVars visit_Assign appends for the given targets, in order.
RECURSIVE AssignedVars(_, _)
AssignedVars(targets, lineno) ==
    IF targets = <<>> THEN <<>>
    ELSE LET target == Head(targets) IN
         (IF target.kind = "Tuple"
          THEN [i \in 1..Len(target.kids) |-> PlainVar(target.kids[i], lineno)]
          ELSE <<PlainVar(target, lineno)>>)
         \o AssignedVars(Tail(targets), lineno)

visit_Assign ==
    /\ pc = "visit" /\ todo # <<>> /\ Head(todo).kind = "Assign"
    /\ LET node == Head(todo) IN
       funcs_and_vars' =
           funcs_and_vars \o AssignedVars(node.targets, node.lineno)
    /\ todo' = Tail(todo)
    /\ UNCHANGED <<workers, merger, corpus>>
    /\ UNCHANGED <<module, pc, func, argi, total_annotations, last_count,
                   annotations, unannotated_names, passes, classifier, resolver>>

\* NodeVisitor.generic_visit for a statement without a visit_ method.
generic_visit ==
    /\ pc = "visit" /\ todo # <<>>
    /\ Head(todo).kind \notin {"FunctionDef", "AnnAssign", "Assign"}
    /\ todo' = Head(todo).body \o Tail(todo)
    /\ UNCHANGED <<workers, merger, corpus>>
    /\ UNCHANGED <<module, pc, func, argi, analyzer, passes, classifier,
                   resolver>>

Init ==
    /\ InitAnalyzer /\ InitWalker /\ IdleClassifier /\ IdleResolver
    /\ IdleWorkers /\ IdleMerger
    /\ IdleCorpus

Next ==
    \/ visit_Module
    \/ visit_FunctionDef_enter
    \/ visit_FunctionDef_arg
    \/ visit_FunctionDef_returns
    \/ visit_AnnAssign
    \/ visit_Assign
    \/ generic_visit

Spec == Init /\ [][Next]_vars


\* ------------------------------------- one pass of handle_annotation_basic
\* A new analyzer is asked to handle_annotation_basic(tree).
InitBasic ==
    /\ InitAnalyzer /\ InitWalker /\ IdleResolver /\ IdleWorkers /\ IdleMerger
    /\ IdleCorpus
    /\ tree \in AnnotationTrees
    /\ calls = <<tree>>
    /\ cpc = "run"

\* The innermost pending call of handle_annotation_basic runs.
basic_call ==
    /\ cpc = "run" /\ calls # <<>>
    /\ LET s == BasicStep(calls, last_count) IN
       /\ calls' = s.calls
       /\ last_count' = s.count
    /\ UNCHANGED <<workers, merger, corpus>>
    /\ UNCHANGED <<tree, cpc, total_annotations, funcs_and_vars, annotations,
                   unannotated_names, walker, passes, resolver>>

\* The outermost call returns.
basic_return ==
    /\ cpc = "run" /\ calls = <<>>
    /\ cpc' = "done"
    /\ UNCHANGED <<workers, merger, corpus>>
    /\ UNCHANGED <<tree, calls, analyzer, walker, passes, resolver>>

NextBasic == basic_call \/ basic_return

SpecBasic == InitBasic /\ [][NextBasic]_vars

\* ------------------------------------------------ one call of get_base_type
InitBase ==
    /\ InitAnalyzer /\ InitWalker /\ IdleClassifier /\ IdleWorkers /\ IdleMerger
    /\ IdleCorpus
    /\ unparsed_annotation \in BaseTypeInputs
    /\ base_type = <<>>
    /\ bpc = "call"

get_base_type_call ==
    /\ bpc = "call"
    /\ base_type' = get_base_type(unparsed_annotation)
    /\ bpc' = "done"
    /\ UNCHANGED <<workers, merger, corpus>>
    /\ UNCHANGED <<unparsed_annotation, analyzer, walker, passes, classifier>>

NextBase == get_base_type_call

SpecBase == InitBase /\ [][NextBase]_vars


\* ------------------------------------------------------ concurrent workers
\* The annotations the workers classify.
WorkerTrees == {ArgAnnotations[i] : i \in 1..Len(ArgAnnotations)}

NotConstructed == [constructed |-> FALSE, last_count |-> 0]
NotReturned == -1

\* The analyzer a worker calls: the first one if the workers share an
\* analyzer, and its own if there is one analyzer per worker.
analyzer_of(w) == IF shared THEN 1 ELSE w

\* init_logger: logging.getLogger("my_logger") is the same logger in every
\* call, and addHandler gives it one more handler, here named after the
\* analyzer that was being constructed.
init_logger(handlers, a) == Append(handlers, a)

\* Workers about to classify pairwise different annotations, on one analyzer
\* or on one analyzer each; no analyzer is constructed yet.
InitWorkers ==
    /\ InitAnalyzer /\ InitWalker /\ IdleClassifier /\ IdleResolver
    /\ IdleMerger /\ IdleCorpus
    /\ shared \in BOOLEAN
    /\ analyzers = [a \in 1..NumWorkers |-> NotConstructed]
    /\ my_logger = <<>>
    /\ worker_tree \in {t \in [1..NumWorkers -> WorkerTrees] :
                           \A v, w \in 1..NumWorkers : v # w => t[v] # t[w]}
    /\ worker_calls = [w \in 1..NumWorkers |-> <<worker_tree[w]>>]
    /\ worker_result = [w \in 1..NumWorkers |-> NotReturned]

\* AnnotationAnalyzer.__init__ for the analyzer a.
worker_init(a) ==
    /\ a = analyzer_of(a) /\ ~analyzers[a].constructed
    /\ analyzers' = [analyzers EXCEPT ![a] = [constructed |-> TRUE,
                                               last_count |-> 0]]
    /\ my_logger' = init_logger(my_logger, a)
    /\ UNCHANGED <<shared, worker_tree, worker_calls, worker_result>>
    /\ UNCHANGED <<analyzer, walker, passes, classifier, resolver, merger,
                   corpus>>

\* The innermost pending call of the worker's handle_annotation_basic pass
\* runs on the worker's analyzer.
worker_basic_call(w) ==
    /\ analyzers[analyzer_of(w)].constructed /\ worker_calls[w] # <<>>
    /\ LET a == analyzer_of(w)
           s == BasicStep(worker_calls[w], analyzers[a].last_count)
       IN  /\ worker_calls' = [worker_calls EXCEPT ![w] = s.calls]
           /\ analyzers' = [analyzers EXCEPT ![a].last_count = s.count]
    /\ UNCHANGED <<shared, my_logger, worker_tree, worker_result>>
    /\ UNCHANGED <<analyzer, walker, passes, classifier, resolver, merger,
                   corpus>>

\* The worker's outermost call returns and the worker reads last_count.
worker_basic_return(w) ==
    /\ worker_calls[w] = <<>> /\ worker_result[w] = NotReturned
    /\ worker_result' =
          [worker_result EXCEPT ![w] = analyzers[analyzer_of(w)].last_count]
    /\ UNCHANGED <<shared, analyzers, my_logger, worker_tree, worker_calls>>
    /\ UNCHANGED <<analyzer, walker, passes, classifier, resolver, merger,
                   corpus>>

NextWorkers ==
    \E w \in 1..NumWorkers :
        \/ worker_init(w)
        \/ worker_basic_call(w)
        \/ worker_basic_return(w)

SpecWorkers == InitWorkers /\ [][NextWorkers]_vars


\* ------------------------------------------------------------ merge_results
\* An entry of a GitHub result list; names and dates are numbered.
Repo(name, created_at, stars) ==
    [name |-> name, created_at |-> created_at, stars |-> stars]

eq_repos(repo1, repo2) ==
    repo1.name = repo2.name /\ repo1.created_at = repo2.created_at

\* A faulty variant of get_repo_most_stars: the names are compared.
get_repo_greatest_name(j0, j1, j2, j3, j4) ==
    LET greatest(best, j) == IF j.name > best.name THEN j ELSE best
    IN  greatest(greatest(greatest(greatest(j0, j1), j2), j3), j4)

get_repo_most_stars(j0, j1, j2, j3, j4) ==
    LET most(best, j) == IF j.stars > best.stars THEN j ELSE best
    IN  most(most(most(most(j0, j1), j2), j3), j4)

\* list.pop(i), for the index i counted from 1.
Pop(list, i) == SubSeq(list, 1, i - 1) \o SubSeq(list, i + 1, Len(list))

\* The loop of remove_repo_from_top from its i-th round on (i counted
\* from 0); reading past the end of the list ends it.
RECURSIVE RemoveFrom(_, _, _, _)
RemoveFrom(repository, repo_list, i, num) ==
    IF i >= num \/ i + 1 > Len(repo_list) THEN repo_list
    ELSE IF eq_repos(repository, repo_list[i + 1])
         THEN RemoveFrom(repository, Pop(repo_list, i + 1), i + 1, num)
         ELSE RemoveFrom(repository, repo_list, i + 1, num)

DefaultNum == 10
len_json == 1000

remove_repo_from_top(repository, repo_list) ==
    RemoveFrom(repository, repo_list, 0, DefaultNum)

\* Result lists, each in descending star order and without duplicates.
\* Ranking holds the repositories 1..11 with 11..1 stars; Late holds
\* repository 1 with one star, behind ten others; Brief holds it on top;
\* Namesake starts with another repository of the same name.
Ranking == [i \in 1..11 |-> Repo(i, 1, 12 - i)]
Late == SubSeq(Ranking, 2, 11) \o <<Repo(1, 1, 1)>>
Brief == <<Repo(1, 1, 11), Repo(12, 1, 0)>>
Namesake == <<Repo(1, 2, 11), Repo(3, 1, 9), Repo(2, 1, 9)>>
ResultLists == {Ranking, Late, Brief, Namesake}

\* merge_results has loaded the five lists.
InitMerge ==
    /\ InitAnalyzer /\ InitWalker /\ IdleClassifier /\ IdleResolver
    /\ IdleWorkers /\ IdleCorpus
    /\ d \in [1..5 -> ResultLists]
    /\ data = <<>>
    /\ mi = 0
    /\ mpc = "loop"

\* One iteration of the loop of merge_results.
merge_iteration ==
    /\ mpc = "loop" /\ mi < len_json /\ mi < MaxMerged
    /\ \A k \in 1..5 : d[k] # <<>>
    /\ LET repo == get_repo_most_stars(d[1][1], d[2][1], d[3][1], d[4][1],
                                       d[5][1])
       IN  /\ d' = [k \in 1..5 |-> remove_repo_from_top(repo, d[k])]
           /\ data' = Append(data, repo)
    /\ mi' = mi + 1
    /\ UNCHANGED mpc
    /\ UNCHANGED <<analyzer, walker, passes, classifier, resolver, workers,
                   corpus>>

\* An iteration finds one of the lists empty: d[0] raises IndexError.
merge_IndexError ==
    /\ mpc = "loop" /\ mi < len_json /\ mi < MaxMerged
    /\ \E k \in 1..5 : d[k] = <<>>
    /\ mpc' = "IndexError"
    /\ UNCHANGED <<d, data, mi>>
    /\ UNCHANGED <<analyzer, walker, passes, classifier, resolver, workers,
                   corpus>>

NextMerge == merge_iteration \/ merge_IndexError

SpecMerge == InitMerge /\ [][NextMerge]_vars


\* ------------------------------------- traverse_database, analyze_repository
S_py == <<".", "p", "y">>
S_pyi == <<".", "p", "y", "i">>
S_txt == <<".", "t", "x", "t">>
S_argument == <<"a", "r", "g", "u", "m", "e", "n", "t">>
S_return == <<"r", "e", "t", "u", "r", "n">>
S_variable == <<"v", "a", "r", "i", "a", "b", "l", "e">>

\* str.endswith
EndsWith(s, suffix) ==
    /\ Len(s) >= Len(suffix)
    /\ SubSeq(s, Len(s) - Len(suffix) + 1, Len(s)) = suffix

\* s[:n]
Truncated(s, n) == SubSeq(s, 1, IF Len(s) < n THEN Len(s) ELSE n)

PathLimit == 269
NameLimit == 134
TypeLimit == 44
AnnotationLimit == 539

\* convert_fvt_to_str: the func_var_type of every record of the list is
\* replaced by its name in the database.
convert_fvt_to_str(records) ==
    [i \in 1..Len(records) |->
        [records[i] EXCEPT !.func_var_type =
            CASE @ = "FUNCTION_ARG" -> "argument"
              [] @ = "FUNCTION_RETURN" -> "return"
              [] @ = "VARIABLE" -> "variable"]]

\* The characters of a name convert_fvt_to_str gives.
Spelled(type) ==
    CASE type = "argument" -> S_argument
      [] type = "return" -> S_return
      [] type = "variable" -> S_variable

\* type[:n]: the name itself unless it is longer than n.
TruncatedType(type, n) ==
    IF Len(Spelled(type)) <= n THEN type ELSE Truncated(Spelled(type), n)

\* verify_name_length, for a FuncVar and for an Annotation whose
\* func_var_type has been converted.
verify_FuncVar(obj) ==
    [obj EXCEPT !.relative_path = Truncated(@, PathLimit),
                !.name = Truncated(@, NameLimit)]
verify_Annotation(obj) ==
    [obj EXCEPT !.relative_path = Truncated(@, PathLimit),
                !.func_var_name = Truncated(@, NameLimit),
                !.annot_name = Truncated(@, NameLimit),
                !.func_var_type = TruncatedType(@, TypeLimit),
                !.base_type = Truncated(@, TypeLimit),
                !.entire_annotation = Truncated(@, AnnotationLimit)]

\* DBHelper.add_module_to_db, add_func_var_to_db, add_annotation_to_db: the
\* list of the DBHelper with the values appended.
add_module_to_db(commits, id_repo, path_rel, name, num_annotations) ==
    Append(commits, <<id_repo, path_rel, name, num_annotations>>)
add_func_var_to_db(commits, fv) ==
    Append(commits, <<fv.repo_id, fv.relative_path, fv.name, fv.lineno,
                      fv.num_var, fv.num_var_annotated>>)
add_annotation_to_db(commits, r) ==
    Append(commits, <<r.repo_id, r.relative_path, r.func_var_name, r.lineno,
                      r.annot_name, r.func_var_type, r.base_type,
                      r.entire_annotation, r.count>>)

\* The lists after the loops that hand every FuncVar and every Annotation
\* to the DBHelper.
RECURSIVE add_func_vars(_, _)
add_func_vars(commits, records) ==
    IF records = <<>> THEN commits
    ELSE add_func_vars(add_func_var_to_db(commits, Head(records)),
                       Tail(records))

RECURSIVE add_annotations(_, _)
add_annotations(commits, records) ==
    IF records = <<>> THEN commits
    ELSE add_annotations(add_annotation_to_db(commits, Head(records)),
                         Tail(records))

\* A file of the repository folder: its name, what open / read, ast.parse
\* and visit do with it ("ok" or the exception raised), and its statements.
File(name, reads, parses, visits, body) ==
    [name |-> name, reads |-> reads, parses |-> parses, visits |-> visits,
     body |-> body]

\* a.py: def f(a: int, b, c: str) -> None: pass
\* b.py: x: int = ...; a = a = ...       b.pyi: y: str
\* c.txt, and d.py, which fails in one of six ways.
SourceFiles ==
    { File(S_a \o S_py, "ok", "ok", "ok", <<FunctionABC(1)>>),
      File(S_b \o S_py, "ok", "ok", "ok",
           <<AnnAssign(1, Name(S_x), Name(S_int)),
             Assign(2, <<Name(S_a), Name(S_a)>>)>>),
      File(S_b \o S_pyi, "ok", "ok", "ok",
           <<AnnAssign(1, Name(S_y), Name(S_str))>>),
      File(S_c \o S_txt, "ok", "ok", "ok", <<>>),
      File(S_d \o S_py, "FileNotFoundError", "ok", "ok", <<>>),
      File(S_d \o S_py, "UnicodeDecodeError", "ok", "ok", <<>>),
      File(S_d \o S_py, "OSError", "ok", "ok", <<>>),
      File(S_d \o S_py, "ok", "SyntaxError", "ok", <<>>),
      File(S_d \o S_py, "ok", "ValueError", "ok", <<>>),
      File(S_d \o S_py, "ok", "ok", "RecursionError", <<>>) }

\* The folders of at most n files with pairwise different names, in the
\* order os.walk lists them.
RECURSIVE Folders(_)
Folders(n) ==
    IF n = 0 THEN {<<>>}
    ELSE LET F == Folders(n - 1) IN
         F \cup {Append(l, f) :
                    l \in {x \in F : Len(x) = n - 1},
                    f \in SourceFiles}

DistinctNames(l) == \A i, j \in 1..Len(l) : i # j => l[i].name # l[j].name

FoundRepoId == 7

\* traverse_database reaches the one repository of the corpus.
InitRepo ==
    /\ InitAnalyzer /\ InitWalker /\ IdleClassifier /\ IdleResolver
    /\ IdleWorkers /\ IdleMerger
    /\ repo_id = DefaultRepoId
    /\ rel_path = DefaultRelPath
    /\ db \in BOOLEAN
    /\ cursor_callable \in BOOLEAN
    /\ files \in {l \in Folders(MaxFiles) : l # <<>> /\ DistinctNames(l)}
    /\ fi = 1
    /\ run = 1
    /\ rpc = "repo"
    /\ module_commits = <<>>
    /\ func_var_commits = <<>>
    /\ annotation_commits = <<>>

\* traverse_database, for one repository: get_repo_id if there is a db
\* (self.my_cursor() raises TypeError unless the cursor object can be
\* called; a repository that is not found ends the program), then the first
\* of the calls of analyze_repository: the one under `if db:` if there is a
\* db, and the unconditional one otherwise.
traverse_database_repo ==
    /\ rpc = "repo"
    /\ IF ~db
       THEN /\ rpc' = "walk"
            /\ repo_id' = DefaultRepoId
            /\ run' = 2
       ELSE IF ~cursor_callable
       THEN /\ rpc' = "TypeError"
            /\ UNCHANGED <<repo_id, run>>
       ELSE \E id \in {FoundRepoId, DefaultRepoId} :
            /\ repo_id' = id
            /\ rpc' = IF id = DefaultRepoId THEN "exit" ELSE "walk"
            /\ run' = 1
    /\ UNCHANGED <<rel_path, db, cursor_callable, files, fi, module_commits,
                   func_var_commits, annotation_commits>>
    /\ UNCHANGED <<analyzer, walker, passes, classifier, resolver, workers,
                   merger>>

\* The file is no python file, or a stub file without its python file.
Ignored(file) ==
    \/ ~EndsWith(file.name, S_py) /\ ~EndsWith(file.name, S_pyi)
    \/ /\ EndsWith(file.name, S_pyi)
       /\ \A i \in 1..Len(files) :
             files[i].name # SubSeq(file.name, 1, Len(file.name) - 1)

\* The exceptions the two try statements of analyze_repository catch.
CaughtReading == {"FileNotFoundError", "UnicodeDecodeError"}
CaughtAnalyzing ==
    {"SyntaxError", "ValueError", "RecursionError", "UnboundLocalError"}

\* analyze_repository, from `for file in files` to the end of the first try
\* statement: the file is ignored, or read.
analyze_repository_read ==
    /\ rpc = "walk" /\ fi <= Len(files)
    /\ LET file == files[fi] IN
       IF Ignored(file) \/ file.reads \in CaughtReading
       THEN fi' = fi + 1 /\ rpc' = "walk"
       ELSE IF file.reads = "ok"
            THEN fi' = fi /\ rpc' = "parse"
            ELSE fi' = fi /\ rpc' = "raised"
    /\ UNCHANGED <<repo_id, rel_path, db, cursor_callable, files, run,
                   module_commits, func_var_commits, annotation_commits>>
    /\ UNCHANGED <<analyzer, walker, passes, classifier, resolver, workers,
                   merger>>

\* A faulty variant of ast_parse_returns: every file is taken as parsed.
ast_parse_lenient(file) == TRUE

\* ast.parse(code) returns a tree, instead of raising an exception.
ast_parse_returns(file) == file.parses = "ok"

\* analyze_repository: ast.parse and the construction of the analyzer; an
\* exception of ast.parse is caught behind the try statement.
analyze_repository_parse ==
    /\ rpc = "parse"
    /\ LET file == files[fi] IN
       IF ast_parse_returns(file)
       THEN /\ total_annotations' = 0
            /\ last_count' = 0
            /\ funcs_and_vars' = <<>>
            /\ annotations' = <<>>
            /\ unannotated_names' = <<>>
            /\ passes' = <<>>
            /\ module' = <<>>
            /\ todo' = <<>>
            /\ pc' = "visit"
            /\ func' = <<>>
            /\ argi' = 1
            /\ rel_path' = file.name
            /\ rpc' = "visit"
            /\ fi' = fi
       ELSE /\ file.parses \in CaughtAnalyzing
            /\ rpc' = "walk"
            /\ fi' = fi + 1
            /\ UNCHANGED <<analyzer, walker, passes, rel_path>>
    /\ UNCHANGED <<repo_id, db, cursor_callable, files, run, module_commits,
                   func_var_commits, annotation_commits>>
    /\ UNCHANGED <<classifier, resolver, workers, merger>>

\* analyze_repository: repo_annotations.visit(node) starts, or raises an
\* exception that is caught behind the try statement.
analyze_repository_visit ==
    /\ rpc = "visit" /\ module = <<>> /\ todo = <<>>
    /\ LET file == files[fi] IN
       IF file.visits = "ok"
       THEN /\ module' = file.body
            /\ todo' = file.body
            /\ rpc' = "visited"
            /\ fi' = fi
       ELSE /\ file.visits \in CaughtAnalyzing
            /\ rpc' = "walk"
            /\ fi' = fi + 1
            /\ UNCHANGED <<module, todo>>
    /\ UNCHANGED <<pc, func, argi, analyzer, passes>>
    /\ UNCHANGED <<repo_id, rel_path, db, cursor_callable, files, run,
                   module_commits, func_var_commits, annotation_commits>>
    /\ UNCHANGED <<classifier, resolver, workers, merger>>

\* analyze_repository, from the check of the calculations to the end of the
\* try statement: without a db nothing is handed over; with a db the module,
\* every FuncVar and every Annotation are, after verify_name_length and
\* convert_fvt_to_str have rewritten the records.
analyze_repository_hand_off ==
    /\ rpc = "visited" /\ pc = "visit" /\ todo = <<>>
    /\ IF ~db
       THEN UNCHANGED <<funcs_and_vars, annotations, module_commits,
                        func_var_commits, annotation_commits>>
       ELSE LET verified == [i \in 1..Len(funcs_and_vars) |->
                                verify_FuncVar(funcs_and_vars[i])]
                converted == convert_fvt_to_str(annotations)
                handed == [i \in 1..Len(converted) |->
                              verify_Annotation(converted[i])]
            IN  /\ module_commits' =
                      add_module_to_db(module_commits, repo_id,
                                       Truncated(rel_path, PathLimit),
                                       files[fi].name, total_annotations)
                /\ funcs_and_vars' = verified
                /\ func_var_commits' =
                      add_func_vars(func_var_commits, verified)
                /\ annotations' = handed
                /\ annotation_commits' =
                      add_annotations(annotation_commits, handed)
    /\ rpc' = "walk"
    /\ fi' = fi + 1
    /\ UNCHANGED <<total_annotations, last_count, unannotated_names, walker,
                   passes>>
    /\ UNCHANGED <<repo_id, rel_path, db, cursor_callable, files, run>>
    /\ UNCHANGED <<classifier, resolver, workers, merger>>

\* analyze_repository returns: after the call under `if db:` the
\* unconditional call follows, and after that one the traversal is over.
analyze_repository_return ==
    /\ rpc = "walk" /\ fi > Len(files)
    /\ IF run = 1
       THEN run' = 2 /\ fi' = 1 /\ rpc' = "walk"
       ELSE run' = run /\ fi' = fi /\ rpc' = "done"
    /\ UNCHANGED <<repo_id, rel_path, db, cursor_callable, files,
                   module_commits, func_var_commits, annotation_commits>>
    /\ UNCHANGED <<analyzer, walker, passes, classifier, resolver, workers,
                   merger>>

NextRepo ==
    \/ traverse_database_repo
    \/ analyze_repository_read
    \/ analyze_repository_parse
    \/ analyze_repository_visit
    \/ analyze_repository_hand_off
    \/ analyze_repository_return
    \/ visit_FunctionDef_enter
    \/ visit_FunctionDef_arg
    \/ visit_FunctionDef_returns
    \/ visit_AnnAssign
    \/ visit_Assign
    \/ generic_visit

SpecRepo == InitRepo /\ [][NextRepo]_vars


\* ==================================================================== claims
RECURSIVE SumSeq(_)
SumSeq(s) == IF s = <<>> THEN 0 ELSE Head(s) + SumSeq(Tail(s))

\* The traversal of the module body visited so far is complete.
TraversalComplete == pc = "visit" /\ todo = <<>> /\ module # <<>>

\* The name / literal leaves reachable by the traversal rules, counted
\* bottom-up and without an accumulator.
RECURSIVE LeafCount(_)
LeafCount(n) ==
    LET of(i) == LeafCount(n.kids[i]) IN
    CASE n.kind \in {"Name", "Constant"} -> 1
      [] n.kind \in {"Subscript", "BinOp"} -> of(1) + of(2)
      [] n.kind \in {"Attribute", "Call", "UnaryOp"} -> of(1)
      [] n.kind = "Slice" ->
            (IF n.kids[1] = Absent THEN 0 ELSE of(1)) +
            (IF n.kids[2] = Absent THEN 0 ELSE of(2))
      [] n.kind \in {"Tuple", "List"} -> SumSeq([i \in 1..Len(n.kids) |-> of(i)])
      [] OTHER -> 0

\* Every node of the tree is of a well-formed kind (a missing Slice bound is
\* no node).
RECURSIVE WellFormed(_)
WellFormed(n) ==
    /\ n.kind \in WellFormedKinds
    /\ \A i \in 1..Len(n.kids) : n.kids[i] = Absent \/ WellFormed(n.kids[i])

\* Some node of the tree is of an anomalous kind.
RECURSIVE ContainsAnomalous(_)
ContainsAnomalous(n) ==
    \/ n.kind \in AnomalousKinds
    \/ \E i \in 1..Len(n.kids) : ContainsAnomalous(n.kids[i])

\* No Tuple or List of the tree is empty and no Slice lacks both bounds.
RECURSIVE NoEmptyShape(_)
NoEmptyShape(n) ==
    /\ ~(n.kind \in {"Tuple", "List"} /\ n.kids = <<>>)
    /\ ~(n.kind = "Slice" /\ n.kids = <<Absent, Absent>>)
    /\ \A i \in 1..Len(n.kids) : n.kids[i] = Absent \/ NoEmptyShape(n.kids[i])

\* C1 (as claimed): the count stored in every emitted Annotation record is
\* the value last_count reached in the handle_annotation_basic pass over that
\* annotation.
C1_CountIsReachedValue ==
    \A i \in 1..Len(annotations) : annotations[i].count = passes[i].reached

\* C2 (as claimed): for every well-formed tree the count accumulated from 0
\* is strictly positive and equals the reference count.
C2_PositiveAndEqualsReference ==
    (cpc = "done" /\ WellFormed(tree)) =>
        (last_count > 0 /\ last_count = LeafCount(tree))

\* C2 (amended): for every well-formed tree the count accumulated from 0
\* equals the reference count, and it is strictly positive when no Tuple or
\* List of the tree is empty and no Slice lacks both bounds.
C2_EqualsReference ==
    (cpc = "done" /\ WellFormed(tree)) =>
        /\ last_count = LeafCount(tree)
        /\ NoEmptyShape(tree) => last_count > 0

\* A pass over a well-formed Subscript without empty shapes has returned with
\* three or more leaves.
C2_Witness ==
    /\ cpc = "done" /\ WellFormed(tree) /\ NoEmptyShape(tree)
    /\ tree.kind = "Subscript" /\ last_count >= 3

\* C3 (as claimed): Optional[Union[str, int]] accumulates a leaf count of 3.
C3_OptionalUnionIsThree ==
    (cpc = "done" /\ tree = OptionalUnionStrInt) => last_count = 3

\* C3 (amended): Optional[Union[str, int]] accumulates a leaf count of 4: the
\* names Optional, Union, str and int.
C3_OptionalUnionIsFour ==
    (cpc = "done" /\ tree = OptionalUnionStrInt) => last_count = 4

\* The pass over Optional[Union[str, int]] has returned.
C3_Witness == cpc = "done" /\ tree = OptionalUnionStrInt

\* C4: for an annotation whose root is of an anomalous or unrecognized kind,
\* handle_annotation_basic makes no recursive call, leaves the accumulator
\* at 0 and returns.
C4_AnomalousRootCountsNothing ==
    tree.kind \in AnomalousKinds =>
        /\ last_count = 0
        /\ calls \in {<<tree>>, <<>>}

\* The pass over a BoolOp with a Name among its values has returned.
C4_Witness ==
    /\ cpc = "done" /\ tree.kind = "BoolOp"
    /\ \E i \in 1..Len(tree.kids) : tree.kids[i].kind = "Name"

\* C5 (as claimed): what the classification hands to the caller (the count
\* stored in the record and the value the accumulator reached) tells whether
\* the annotation contains an anomalous node: two annotations with the same
\* classification are both anomalous or both well-formed.
C5_ClassificationTellsAnomalous ==
    \A i, j \in 1..Len(annotations) :
        (/\ annotations[i].count = annotations[j].count
         /\ passes[i].reached = passes[j].reached)
        => (ContainsAnomalous(passes[i].annot) <=>
            ContainsAnomalous(passes[j].annot))

\* The text before the first '[', ',' or ' ' of s.
HeadToken(s) ==
    LET seps == {i \in 1..Len(s) : s[i] \in {"[", ",", " "}} IN
    IF seps = {} THEN s
    ELSE SubSeq(s, 1, (CHOOSE i \in seps : \A j \in seps : i <= j) - 1)

ExpectedBaseType(u) ==
    IF u.is_none \/ u.text = <<>> THEN <<>>
    ELSE LET head == HeadToken(u.text) IN
         IF head = S_dots THEN S_ellipsis
         ELSE IF head \in PythonTypes THEN head ELSE S_user_defined

\* C6: get_base_type returns "" for None and for the empty string, and
\* otherwise "ellipsis" if the head token is "...", the head token if it is
\* in the list of python types, and "user_defined" in every other case; the
\* five named examples come out as stated.
C6_BaseTypeOfHeadToken ==
    bpc = "done" =>
        /\ base_type = ExpectedBaseType(unparsed_annotation)
        /\ unparsed_annotation = PyStr(S_int) => base_type = S_int
        /\ unparsed_annotation = PyStr(S_OptUnion) => base_type = S_Optional
        /\ unparsed_annotation = PyStr(S_Callable_) =>
              base_type = SubSeq(S_Callable_, 1, 8)
        /\ unparsed_annotation = PyStr(S_MyCustomClass) =>
              base_type = S_user_defined
        /\ unparsed_annotation = PyStr(S_dots) => base_type = S_ellipsis

\* get_base_type("Optional[Union[str, int]]") has returned "Optional".
C6_Witness ==
    /\ bpc = "done"
    /\ unparsed_annotation = PyStr(S_OptUnion)
    /\ base_type = S_Optional

\* C7: when the traversal of a module completes, the number of Annotation
\* records equals the sum of num_var_annotated over funcs_and_vars.
C7_RecordsMatchAnnotatedBindings ==
    TraversalComplete =>
        Len(annotations) =
            SumSeq([i \in 1..Len(funcs_and_vars) |->
                       funcs_and_vars[i].num_var_annotated])

\* A completed traversal with three or more FuncVars, one of them without an
\* annotation, and two or more Annotation records.
C7_Witness ==
    /\ TraversalComplete
    /\ Len(funcs_and_vars) >= 3 /\ Len(annotations) >= 2
    /\ \E i \in 1..Len(funcs_and_vars) : funcs_and_vars[i].num_var_annotated = 0

Bounded(fv) == 0 <= fv.num_var_annotated /\ fv.num_var_annotated <= fv.num_var

\* C8: in every state of a traversal, every FuncVar, stored or still being
\* built, has 0 <= num_var_annotated <= num_var.
C8_AnnotatedWithinTotal ==
    /\ \A i \in 1..Len(funcs_and_vars) : Bounded(funcs_and_vars[i])
    /\ \A i \in 1..Len(func) : Bounded(func[i])

\* visit_FunctionDef is building a FuncVar with one annotated and one bare
\* argument while earlier FuncVars are stored.
C8_Witness ==
    /\ pc = "args" /\ func # <<>>
    /\ func[1].num_var = 2 /\ func[1].num_var_annotated = 1
    /\ funcs_and_vars # <<>>

\* C9 (as claimed): def f(a: int, b, c: str) -> None yields num_var = 3 and
\* num_var_annotated = 2.
C9_ThreeAndTwo ==
    (TraversalComplete /\ module = <<FunctionABC(1)>>) =>
        /\ funcs_and_vars[1].num_var = 3
        /\ funcs_and_vars[1].num_var_annotated = 2

\* C9 (amended): def f(a: int, b, c: str) -> None yields num_var = 4 and
\* num_var_annotated = 3: the three arguments and the annotated return slot,
\* of which a, c and the return are annotated.
C9_FourAndThree ==
    (TraversalComplete /\ module = <<FunctionABC(1)>>) =>
        /\ Len(funcs_and_vars) = 1
        /\ funcs_and_vars[1].num_var = 4
        /\ funcs_and_vars[1].num_var_annotated = 3

\* The traversal of the module def f(a: int, b, c: str) -> None is complete.
C9_Witness == TraversalComplete /\ module = <<FunctionABC(1)>>

\* The function's own body holds a return of something other than None,
\* directly or inside a compound statement (a nested function's body is not
\* the function's own).
RECURSIVE OwnBodyReturns(_)
OwnBodyReturns(body) ==
    \E i \in 1..Len(body) :
        \/ ReturnsSomething(body[i])
        \/ body[i].kind # "FunctionDef" /\ OwnBodyReturns(body[i].body)

\* C10 (as claimed): a function without a return annotation has the return
\* slot counted in num_var, and not in num_var_annotated, exactly when its
\* own body holds a return of something other than None, also inside a
\* compound statement.
C10_ReturnSlotIffBodyReturns ==
    (/\ module # <<>> /\ funcs_and_vars # <<>>
     /\ module[1].kind = "FunctionDef" /\ module[1].returns = Absent)
    => LET node == module[1]
           args == node.args.args
           annotated == {i \in 1..Len(args) : args[i].annotation # Absent}
       IN  /\ funcs_and_vars[1].num_var =
                 Len(args) + (IF OwnBodyReturns(node.body) THEN 1 ELSE 0)
           /\ funcs_and_vars[1].num_var_annotated = Cardinality(annotated)

\* ---------------------------------------------------- visit_FunctionDef
\* The function definitions among the statements and, nested, in their bodies.
RECURSIVE FunctionsIn(_)
FunctionsIn(body) ==
    UNION {(IF body[i].kind = "FunctionDef" THEN {body[i]} ELSE {})
           \cup FunctionsIn(body[i].body) : i \in 1..Len(body)}

\* visit_FunctionDef has appended the FuncVar of the function.
Stored(node) ==
    \E i \in 1..Len(funcs_and_vars) :
        /\ funcs_and_vars[i].name = node.name
        /\ funcs_and_vars[i].lineno = node.lineno

\* What the records emitted for the function so far say, in the order of the
\* annotations list: the kind of binding, its name and the annotation's text.
RecordsOf(node) ==
    LET emitted(r) == /\ r.func_var_name = node.name /\ r.lineno = node.lineno
                      /\ r.func_var_type \in {"FUNCTION_ARG", "FUNCTION_RETURN"}
        own == SelectSeq(annotations, emitted)
    IN  [i \in 1..Len(own) |->
            <<own[i].func_var_type, own[i].annot_name, own[i].entire_annotation>>]

\* One FUNCTION_ARG entry per annotated argument among the first n, in
\* declaration order.
RECURSIVE ArgEntries(_, _)
ArgEntries(args, n) ==
    IF n = 0 THEN <<>>
    ELSE ArgEntries(args, n - 1) \o
         (IF args[n].annotation = Absent THEN <<>>
          ELSE <<<<"FUNCTION_ARG", args[n].arg, Unparse(args[n].annotation)>>>>)

ReturnEntry(node) ==
    IF node.returns = Absent THEN <<>>
    ELSE <<<<"FUNCTION_RETURN", <<>>, Unparse(node.returns)>>>>

\* C11: visit_FunctionDef processes the positional arguments in declaration
\* order. After n arguments num_var is n, num_var_annotated is the number of
\* annotated ones among them, and the records emitted for the function are
\* one FUNCTION_ARG record per annotated argument, named after it, in
\* argument order; once the function's FuncVar is stored its records are
\* those of all its arguments followed by its return record, if any.
C11_ArgumentsInDeclarationOrder ==
    /\ pc = "args" =>
          LET node == Head(todo)
              seen == ArgEntries(node.args.args, argi - 1)
          IN  /\ func[1].num_var = argi - 1
              /\ func[1].num_var_annotated = Len(seen)
              /\ RecordsOf(node) = seen
    /\ \A node \in FunctionsIn(module) :
          Stored(node) =>
              RecordsOf(node) =
                  ArgEntries(node.args.args, Len(node.args.args))
                  \o ReturnEntry(node)

\* def f(a: int, b, c: str) -> None has been visited: the records of a and c
\* precede the return record.
C11_Witness ==
    /\ module = <<FunctionABC(1)>> /\ Stored(FunctionABC(1))
    /\ Len(annotations) = 3
    /\ annotations[1].annot_name = S_a /\ annotations[2].annot_name = S_c
    /\ annotations[3].func_var_type = "FUNCTION_RETURN"

\* The FuncVar visit_FunctionDef stored for the function.
FuncVarOf(node) ==
    funcs_and_vars[CHOOSE i \in 1..Len(funcs_and_vars) :
                      /\ funcs_and_vars[i].name = node.name
                      /\ funcs_and_vars[i].lineno = node.lineno]

AnnotatedArgs(node) ==
    {i \in 1..Len(node.args.args) : node.args.args[i].annotation # Absent}

\* C12: a function with a return annotation has the return slot counted
\* exactly once in num_var and once in num_var_annotated, and exactly one
\* record of it is a FUNCTION_RETURN record, with annot_name "", whether or
\* not its body contains a return statement.
C12_AnnotatedReturnSlot ==
    \A node \in FunctionsIn(module) :
        (Stored(node) /\ node.returns # Absent) =>
            LET returned == SelectSeq(RecordsOf(node),
                                      LAMBDA e : e[1] = "FUNCTION_RETURN")
            IN  /\ FuncVarOf(node).num_var = Len(node.args.args) + 1
                /\ FuncVarOf(node).num_var_annotated =
                      Cardinality(AnnotatedArgs(node)) + 1
                /\ returned = <<<<"FUNCTION_RETURN", <<>>, Unparse(node.returns)>>>>

\* A function with a return annotation whose body returns a value has been
\* visited.
C12_Witness ==
    \E node \in FunctionsIn(module) :
        /\ Stored(node) /\ node.returns # Absent
        /\ contains_return(node.body)
        /\ node.args.args # <<>>

\* The next statement to visit is of the given kind.
Visiting(kind) == pc = "visit" /\ todo # <<>> /\ Head(todo).kind = kind

\* s is t with exactly one more entry at its end.
AppendsOne(s, t) == Len(s) = Len(t) + 1 /\ SubSeq(s, 1, Len(t)) = t

\* C13: visiting an annotated variable declaration appends exactly one
\* FuncVar, with num_var = 1 and num_var_annotated = 1, and emits exactly one
\* Annotation record, of type VARIABLE, whose annot_name is its
\* func_var_name, the variable name derived from the target.
C13_AnnAssignOneSiteOneRecord ==
    [][Visiting("AnnAssign") =>
          LET var_name == get_var_name(Head(todo).targets[1])
              fv == funcs_and_vars'[Len(funcs_and_vars')]
              record == annotations'[Len(annotations')]
          IN  /\ AppendsOne(funcs_and_vars', funcs_and_vars)
              /\ fv.name = var_name /\ fv.lineno = Head(todo).lineno
              /\ fv.num_var = 1 /\ fv.num_var_annotated = 1
              /\ AppendsOne(annotations', annotations)
              /\ total_annotations' = total_annotations + 1
              /\ record.func_var_type = "VARIABLE"
              /\ record.func_var_name = var_name
              /\ record.annot_name = record.func_var_name
              /\ record.entire_annotation = Unparse(Head(todo).annotation)]_vars

\* The declaration self.y: ... has been visited: one site and one record,
\* both named y.
C13_Witness ==
    /\ TraversalComplete /\ module[1].kind = "AnnAssign"
    /\ module[1].targets[1].kind = "Attribute"
    /\ Len(funcs_and_vars) = 1 /\ Len(annotations) = 1
    /\ funcs_and_vars[1].name = S_y /\ annotations[1].annot_name = S_y

\* The elements a plain assignment binds, in order: the elements of a tuple
\* target, and every other target itself.
RECURSIVE BoundElements(_)
BoundElements(targets) ==
    IF targets = <<>> THEN <<>>
    ELSE (IF Head(targets).kind = "Tuple" THEN Head(targets).kids
          ELSE <<Head(targets)>>) \o BoundElements(Tail(targets))

\* C14: visiting a plain assignment appends one FuncVar with num_var = 1 and
\* num_var_annotated = 0 per target, and one per element of a tuple target
\* (two for a, b = 1, 2 and two for a = b = 1), and leaves annotations and
\* total_annotations unchanged.
C14_AssignSitesWithoutRecords ==
    [][Visiting("Assign") =>
          LET node == Head(todo)
              bound == BoundElements(node.targets)
              old == Len(funcs_and_vars)
          IN  /\ Len(funcs_and_vars') = old + Len(bound)
              /\ SubSeq(funcs_and_vars', 1, old) = funcs_and_vars
              /\ \A i \in 1..Len(bound) :
                    LET fv == funcs_and_vars'[old + i] IN
                    /\ fv.name = get_var_name(bound[i])
                    /\ fv.lineno = node.lineno
                    /\ fv.num_var = 1 /\ fv.num_var_annotated = 0
              /\ node.targets = <<Tuple(<<Name(S_a), Name(S_b)>>)>> =>
                    Len(funcs_and_vars') = old + 2
              /\ node.targets = <<Name(S_a), Name(S_a)>> =>
                    Len(funcs_and_vars') = old + 2
              /\ UNCHANGED <<annotations, total_annotations>>]_vars

\* The assignment a, self.b = c = 1 has been visited: three sites, no record.
C14_Witness ==
    /\ TraversalComplete /\ module[1].kind = "Assign"
    /\ Len(module[1].targets) = 2 /\ module[1].targets[1].kind = "Tuple"
    /\ Len(funcs_and_vars) = 3
    /\ \A i \in 1..3 : funcs_and_vars[i].num_var_annotated = 0
    /\ annotations = <<>> /\ total_annotations = 0

\* The names of the arguments without an annotation, in declaration order.
UnannotatedArgNames(node) ==
    LET bare(a) == a.annotation = Absent
        args == SelectSeq(node.args.args, bare)
    IN  [i \in 1..Len(args) |-> args[i].arg]

\* C15 (as claimed): when visit_FunctionDef stores a partially annotated
\* site (0 < num_var_annotated < num_var) the names it adds to
\* unannotated_names are exactly the names of the site's arguments without
\* an annotation, and for any other site it adds nothing.
C15_OnlyUnannotatedNamesAdded ==
    [][(pc = "args" /\ pc' = "visit") =>
          LET node == Head(todo)
              fv == funcs_and_vars'[Len(funcs_and_vars')]
              partial == 0 < fv.num_var_annotated
                         /\ fv.num_var_annotated < fv.num_var
          IN  unannotated_names' =
                  unannotated_names \o
                  (IF partial THEN UnannotatedArgNames(node) ELSE <<>>)]_vars

IsPrefix(s, t) == Len(s) <= Len(t) /\ SubSeq(t, 1, Len(s)) = s

\* The binding sites declared by the statements: one per function, per
\* annotated variable and per element bound by a plain assignment, equal
\* ones counted separately.
RECURSIVE SiteCount(_)
SiteCount(body) ==
    SumSeq([i \in 1..Len(body) |->
               (CASE body[i].kind = "FunctionDef" -> 1
                  [] body[i].kind = "AnnAssign" -> 1
                  [] body[i].kind = "Assign" -> Len(BoundElements(body[i].targets))
                  [] OTHER -> 0)
               + SiteCount(body[i].body)])

\* The annotations written in the statements, equal ones counted separately.
RECURSIVE AnnotationCount(_)
AnnotationCount(body) ==
    SumSeq([i \in 1..Len(body) |->
               (CASE body[i].kind = "FunctionDef" ->
                        Cardinality(AnnotatedArgs(body[i]))
                        + (IF body[i].returns = Absent THEN 0 ELSE 1)
                  [] body[i].kind = "AnnAssign" -> 1
                  [] OTHER -> 0)
               + AnnotationCount(body[i].body)])

\* C16: annotations and funcs_and_vars are append-only during a traversal.
\* Every step leaves each of them unchanged or extends it at its end, by one
\* entry (visit_Assign by one entry per bound element, one after another),
\* so no entry is removed or reordered; and none is merged or filtered out:
\* a completed traversal holds one entry per site and one per annotation
\* written, equal ones included.
C16_AppendOnly ==
    [][/\ IsPrefix(annotations, annotations')
       /\ Len(annotations') <= Len(annotations) + 1
       /\ IsPrefix(funcs_and_vars, funcs_and_vars')
       /\ Len(funcs_and_vars') <=
             Len(funcs_and_vars) +
             (IF Visiting("Assign") THEN Len(BoundElements(Head(todo).targets))
              ELSE 1)
       /\ TraversalComplete' =>
             /\ Len(funcs_and_vars') = SiteCount(module')
             /\ Len(annotations') = AnnotationCount(module')]_vars

\* A completed traversal holds two equal records with another one between
\* them, and two equal FuncVars.
C16_Witness ==
    /\ TraversalComplete
    /\ \E i, j \in 1..Len(annotations) :
          i + 1 < j /\ annotations[i] = annotations[j]
          /\ annotations[i + 1] # annotations[i]
    /\ \E i, j \in 1..Len(funcs_and_vars) :
          i < j /\ funcs_and_vars[i] = funcs_and_vars[j]

\* The i-th and the j-th call of completely_handle_annotation were given the
\* same annotation node and the same declaration arguments.
SameCall(i, j) ==
    /\ passes[i].annot = passes[j].annot
    /\ annotations[i].func_var_name = annotations[j].func_var_name
    /\ annotations[i].lineno = annotations[j].lineno
    /\ annotations[i].func_var_type = annotations[j].func_var_type
    /\ annotations[i].annot_name = annotations[j].annot_name

\* C17: handling the same annotation node twice with the same declaration
\* arguments, with any other annotations handled in between, yields two
\* records that are equal in every field, base_type, entire_annotation and
\* count included.
C17_SameCallSameRecord ==
    \A i, j \in 1..Len(annotations) :
        SameCall(i, j) =>
            /\ annotations[i] = annotations[j]
            /\ annotations[i].base_type = annotations[j].base_type
            /\ annotations[i].entire_annotation = annotations[j].entire_annotation
            /\ annotations[i].count = annotations[j].count

\* The same annotation has been handled twice with the same arguments, and
\* an annotation with more leaves in between.
C17_Witness ==
    \E i, j \in 1..Len(annotations) :
        /\ i + 1 < j /\ SameCall(i, j)
        /\ passes[i + 1].reached > passes[i].reached

\* C18: whenever completely_handle_annotation enters handle_annotation_basic
\* for the root of an annotation, last_count is 0, whatever annotations the
\* analyzer has handled before; between two annotations last_count is 0.
C18_AccumulatorZeroAtEntry ==
    /\ \A i \in 1..Len(passes) : passes[i].entry = 0
    /\ last_count = 0

\* An annotation has been handled after one whose pass had reached four
\* leaves or more.
C18_Witness ==
    \E i, j \in 1..Len(passes) :
        i < j /\ passes[i].reached >= 4 /\ passes[j].entry = 0

\* C19 (as claimed): when handle_annotation_basic passes over different
\* annotation trees are interleaved step by step, each pass yields the leaf
\* count of its own tree, as it does when it runs alone from 0.
C19_EachPassYieldsOwnCount ==
    \A w \in 1..Len(worker_result) :
        worker_result[w] # NotReturned =>
            worker_result[w] = handle_annotation_basic(worker_tree[w], 0)

\* C20 (as claimed): with one analyzer per worker no state is written by the
\* steps of two workers: the handlers of the logger all come from one
\* analyzer.
C20_NoSharedMutableState ==
    ~shared =>
        \A i, j \in 1..Len(my_logger) : my_logger[i] = my_logger[j]

\* C27: in every state between two calls of completely_handle_annotation
\* during a traversal, total_annotations equals the length of annotations.
C27_CounterIsListLength ==
    total_annotations = Len(annotations)

\* Three annotations have been handled, one of them with four leaves.
C27_Witness ==
    /\ total_annotations = 3 /\ Len(annotations) = 3
    /\ \E i \in 1..Len(passes) : passes[i].reached = 4

\* The arguments of the function that are not in node.args.args.
OtherArguments(node) ==
    node.args.posonlyargs \o node.args.vararg \o node.args.kwonlyargs
    \o node.args.kwarg

C29_BaseTypeClosedAndIdempotent ==
    bpc = "done" =>
        /\ base_type \in {<<>>, S_user_defined} \cup (PythonTypes \ {S_dots})
        /\ get_base_type(PyStr(base_type)) = base_type

\* get_base_type("...") has returned "ellipsis".
C29_Witness ==
    /\ bpc = "done" /\ unparsed_annotation = PyStr(S_dots)
    /\ base_type = S_ellipsis

\* C25 (as claimed): no two entries of the merged list are equal under
\* eq_repos.
C25_MergedWithoutDuplicates ==
    \A i, j \in 1..Len(data) : i < j => ~eq_repos(data[i], data[j])

\* C26: after every iteration of the merge loop the merged list is in
\* non-increasing star order.
C26_MergedByDescendingStars ==
    \A i \in 1..Len(data) - 1 : data[i].stars >= data[i + 1].stars

\* Three or more repositories have been merged, taken from different
\* lists, the last with fewer stars than the first.
C26_Witness ==
    /\ Len(data) >= 3 /\ data[1].stars > data[Len(data)].stars
    /\ d[1] # d[2]
    /\ data[1] \in {Namesake[1], Brief[1]}
    /\ \E i \in 2..Len(data) : data[i].created_at # data[1].created_at


\* C21: in analyze_repository a failure while reading, parsing or analyzing
\* one file never stops the processing of the remaining files: when the
\* function is over, by a return or by an exception, no file behind the one
\* it worked on last is left.
C21_FailureKeepsRemainingFiles ==
    rpc \in {"done", "raised"} => fi >= Len(files)

\* The three buffered lists of the DBHelper.
Sink == <<module_commits, func_var_commits, annotation_commits>>

\* C22: a file whose parsing fails (ast.parse raises SyntaxError or
\* ValueError) hands zero records to the sink: no step taken while
\* analyze_repository is at that file changes module_commits,
\* func_var_commits or annotation_commits.
C22_ParseFailureHandsNothing ==
    [][(fi <= Len(files) /\ files[fi].parses \in {"SyntaxError", "ValueError"})
          => Sink' = Sink]_vars

\* A file whose parsing failed is behind, next to a file whose records
\* have been handed to a database helper.
C22_Witness ==
    /\ db /\ rpc = "walk" /\ fi = 3
    /\ \E i \in 1..2 : files[i].parses \in {"SyntaxError", "ValueError"}
    /\ Len(module_commits) = 1
    /\ annotation_commits # <<>>

\* The file is one whose records analyze_repository hands over.
HandedOver(file) ==
    /\ ~Ignored(file)
    /\ file.reads = "ok" /\ file.parses = "ok" /\ file.visits = "ok"

\* The entries of module_commits for the module of this name.
ModuleEntries(name) ==
    {k \in 1..Len(module_commits) : module_commits[k][3] = name}

NoEntryTwice(commits) ==
    \A j, k \in 1..Len(commits) : j # k => commits[j] # commits[k]

\* C23: in one pass of traverse_database with a database helper, the records
\* of each module are handed over exactly once: when the traversal of the
\* repository is over, module_commits has exactly one entry for each module
\* handed over, and no FuncVar or Annotation entry is in func_var_commits or
\* annotation_commits twice.
C23_HandedOverExactlyOnce ==
    (db /\ rpc = "done") =>
        /\ \A i \in 1..Len(files) :
              Cardinality(ModuleEntries(files[i].name)) =
                  IF HandedOver(files[i]) THEN 1 ELSE 0
        /\ NoEntryTwice(func_var_commits)
        /\ NoEntryTwice(annotation_commits)

\* Every record of the list is in the list of the next state as it is.
RecordsKept(records, records_next) ==
    \A i \in 1..Len(records) :
        i <= Len(records_next) => records_next[i] = records[i]

\* C24: Annotation and FuncVar records are immutable after creation: no
\* step of the traversal or of the hand-off in analyze_repository changes a
\* field of a record that is in annotations or funcs_and_vars.
C24_RecordsImmutable ==
    [][/\ RecordsKept(annotations, annotations')
       /\ RecordsKept(funcs_and_vars, funcs_and_vars')]_vars

=============================================================================
